---- MODULE Spec2Model ----
(***************************************************************************)
(* Model of scripts/ci/configure-aws-cli.py: a sequential script that      *)
(* writes <home>/.aws/config and <home>/.aws/credentials from the          *)
(* environment variables R2_S3_ENDPOINT, R2_ACCESS_KEY_ID and              *)
(* R2_SECRET_ACCESS_KEY.  The state is the process environment, the file   *)
(* system below <home>, the position of the interpreter in main() and its  *)
(* callees, the local variables, the two output streams and the exit       *)
(* status.  History variables record what a run found when it started,     *)
(* which variables it read and which files it wrote.                       *)
(***************************************************************************)
EXTENDS Integers, Sequences, FiniteSets, TLC

VARIABLES env, fs, pc, locals, stdout, stderr, exit_code,
          start, written, reads, runs, firstOk

vars == <<env, fs, pc, locals, stdout, stderr, exit_code,
          start, written, reads, runs, firstOk>>

(* Number of invocations of the script in one behaviour. *)
MaxRuns == 2

(***************************************************************************)
(* Environment and paths                                                   *)
(***************************************************************************)
EnvKeys == {"R2_S3_ENDPOINT", "R2_ACCESS_KEY_ID", "R2_SECRET_ACCESS_KEY"}

(* Values a variable may carry when it is set; "" is set-but-empty. *)
EnvValues == {"", "https://x.r2.cloudflarestorage.com", "AKIA"}

(* An environment sets any subset of the keys. *)
Environments == UNION {[D -> EnvValues] : D \in SUBSET EnvKeys}

(* Python's None / a value, as returned by os.getenv. *)
None == [some |-> FALSE, val |-> ""]

Some(v) == [some |-> TRUE, val |-> v]

os_getenv(key) == IF key \in DOMAIN env THEN Some(env[key]) ELSE None

home_dir == "/home/ci"

os_path_join(a, b) == a \o "/" \o b

aws_dir == os_path_join(home_dir, ".aws")

config_file == os_path_join(aws_dir, "config")

creds_file == os_path_join(aws_dir, "credentials")

(***************************************************************************)
(* File system: a set of directories and a partial map file path -> text,  *)
(* a text being its sequence of newline-terminated lines.                  *)
(***************************************************************************)
os_path_exists(path) == path \in fs.dirs \/ path \in DOMAIN fs.files

(* A file an operator left behind before the script ran. *)
OperatorText == <<"[default]", "region = us-east-1">>

InitialFileSystems ==
  {[dirs |-> {home_dir}, files |-> [p \in {} |-> OperatorText]]}
  \cup {[dirs |-> {home_dir, aws_dir}, files |-> [p \in D |-> OperatorText]] :
          D \in SUBSET {config_file, creds_file}}

(* os.makedirs(name, mode=0o777, exist_ok=False): a keyword that is not a  *)
(* parameter raises TypeError before anything is created.                  *)
makedirs_params == {"name", "mode", "exist_ok"}

os_makedirs(name, kwargs) ==
  IF ~(kwargs \subseteq makedirs_params)
    THEN [raised |-> TRUE, dirs |-> fs.dirs]
    ELSE [raised |-> FALSE, dirs |-> fs.dirs \cup {name}]

(***************************************************************************)
(* textwrap.dedent and str.format on the two templates.  A template line   *)
(* is its indentation and its pieces; the piece "{}" is a replacement      *)
(* field.                                                                  *)
(***************************************************************************)
Field == "{}"

config_template ==
  << [indent |-> 4, parts |-> <<"[default]">>],
     [indent |-> 4, parts |-> <<"endpoint_url = ", Field>>],
     [indent |-> 4, parts |-> <<"region = auto">>],
     [indent |-> 4, parts |-> <<"output = json">>] >>

creds_template ==
  << [indent |-> 4, parts |-> <<"[default]">>],
     [indent |-> 4, parts |-> <<"aws_access_key_id = ", Field>>],
     [indent |-> 4, parts |-> <<"aws_secret_access_key = ", Field>>] >>

MinIndent(lines) ==
  CHOOSE m \in {lines[i].indent : i \in DOMAIN lines} :
    \A i \in DOMAIN lines : m <= lines[i].indent

RECURSIVE Spaces(_)
Spaces(n) == IF n <= 0 THEN "" ELSE " " \o Spaces(n - 1)

(* Removes the whitespace common to all lines. *)
textwrap_dedent(lines) ==
  [i \in DOMAIN lines |-> [lines[i] EXCEPT !.indent = @ - MinIndent(lines)]]

(* Replaces the fields of one line by args, left to right; returns the     *)
(* text of the line and the arguments not yet used.                        *)
RECURSIVE FormatParts(_, _)
FormatParts(parts, args) ==
  IF parts = <<>> THEN [text |-> "", rest |-> args]
  ELSE IF Head(parts) = Field
    THEN LET r == FormatParts(Tail(parts), Tail(args))
         IN [text |-> Head(args) \o r.text, rest |-> r.rest]
    ELSE LET r == FormatParts(Tail(parts), args)
         IN [text |-> Head(parts) \o r.text, rest |-> r.rest]

RECURSIVE str_format(_, _)
str_format(lines, args) ==
  IF lines = <<>> THEN <<>>
  ELSE LET r == FormatParts(Head(lines).parts, args)
       IN <<Spaces(Head(lines).indent) \o r.text>> \o str_format(Tail(lines), r.rest)

(***************************************************************************)
(* from_env and check_no_file_named: what the call prints and whether it   *)
(* ends the process with exit(2).                                          *)
(***************************************************************************)
MissingMsg(key) == "Missing required environment variable: " \o key

ExistsMsg(path) == "AWS config file '" \o path \o "' exists. Refusing to overwrite."

(* Variant of from_env that rejects only an unset variable. *)
from_env_is_none(key) ==
  LET ret == os_getenv(key)
  IN IF ~ret.some
       THEN [exits |-> TRUE, out |-> <<MissingMsg(key)>>, ret |-> ret.val]
       ELSE [exits |-> FALSE, out |-> <<>>, ret |-> ret.val]

from_env(key) ==
  LET ret == os_getenv(key)
  IN IF ~ret.some \/ ret.val = ""
       THEN [exits |-> TRUE, out |-> <<MissingMsg(key)>>, ret |-> ret.val]
       ELSE [exits |-> FALSE, out |-> <<>>, ret |-> ret.val]

(* Variant of check_no_file_named that never refuses. *)
check_no_file_named_skipped(path) == [exits |-> FALSE, out |-> <<>>]

check_no_file_named(path) ==
  IF os_path_exists(path)
    THEN [exits |-> TRUE, out |-> <<ExistsMsg(path)>>]
    ELSE [exits |-> FALSE, out |-> <<>>]

(***************************************************************************)
(* Control flow: the statements of main, write_config and write_creds in   *)
(* program order.  pc.main indexes main_body, pc.sub the body of the       *)
(* function main is calling.                                               *)
(***************************************************************************)
Stmt(op, key, var) == [op |-> op, key |-> key, var |-> var]

(* Variant of main that calls write_creds before write_config. *)
main_body_creds_first ==
  << Stmt("makedirs", "", ""),
     Stmt("write_creds", "", ""),
     Stmt("write_config", "", "") >>

main_body ==
  << Stmt("makedirs", "", ""),
     Stmt("write_config", "", ""),
     Stmt("write_creds", "", "") >>

(* Variant of write_config that reads the variable before the check. *)
write_config_body_env_first ==
  << Stmt("from_env", "R2_S3_ENDPOINT", "endpoint"),
     Stmt("check_no_file_named", "", ""),
     Stmt("open_config", "", "") >>

write_config_body ==
  << Stmt("check_no_file_named", "", ""),
     Stmt("from_env", "R2_S3_ENDPOINT", "endpoint"),
     Stmt("open_config", "", "") >>

(* Variant of write_creds that reads the secret key first. *)
write_creds_body_key_first ==
  << Stmt("from_env", "R2_SECRET_ACCESS_KEY", "key"),
     Stmt("from_env", "R2_ACCESS_KEY_ID", "key_id"),
     Stmt("open_creds", "", "") >>

write_creds_body ==
  << Stmt("from_env", "R2_ACCESS_KEY_ID", "key_id"),
     Stmt("from_env", "R2_SECRET_ACCESS_KEY", "key"),
     Stmt("open_creds", "", "") >>

Body(fn) == IF fn = "write_config" THEN write_config_body ELSE write_creds_body

(* The path argument main passes to the function it is calling. *)
PathArg(fn) == IF fn = "write_config" THEN config_file ELSE creds_file

InMain == pc.main <= Len(main_body)

Callee == main_body[pc.main].op

(* The statement the interpreter executes next. *)
Current ==
  IF ~InMain THEN Stmt("return", "", "")
  ELSE IF Callee = "makedirs" THEN main_body[pc.main]
  ELSE Body(Callee)[pc.sub]

(* The position after the current statement completes normally. *)
Advance ==
  IF InMain /\ Callee # "makedirs" /\ pc.sub < Len(Body(Callee))
    THEN [pc EXCEPT !.sub = @ + 1]
    ELSE [main |-> pc.main + 1, sub |-> 1]

Running == exit_code = <<>>

Done == exit_code # <<>>

Exited(n) == exit_code = <<n>>

EmptyLocals == [v \in {} |-> ""]

(***************************************************************************)
(* Initial state: the script has just been started in some environment on  *)
(* some file system.                                                       *)
(***************************************************************************)
Init ==
  /\ env \in Environments
  /\ fs \in InitialFileSystems
  /\ pc = [main |-> 1, sub |-> 1]
  /\ locals = EmptyLocals
  /\ stdout = <<>>
  /\ stderr = <<>>
  /\ exit_code = <<>>
  /\ start = fs
  /\ written = {}
  /\ reads = <<>>
  /\ runs = 1
  /\ firstOk = <<>>

(***************************************************************************)
(* Actions                                                                 *)
(***************************************************************************)
(* main, lines 64-67: create <home>/.aws when it does not exist. *)
main_makedirs ==
  /\ Running
  /\ Current.op = "makedirs"
  /\ IF ~os_path_exists(aws_dir)
       THEN LET r == os_makedirs(aws_dir, {"exists_ok"})
            IN IF r.raised
                 THEN /\ stderr' = Append(stderr,
                           "TypeError: makedirs() got an unexpected keyword argument 'exists_ok'")
                      /\ exit_code' = <<1>>
                      /\ UNCHANGED <<fs, pc>>
                 ELSE /\ fs' = [fs EXCEPT !.dirs = r.dirs]
                      /\ pc' = Advance
                      /\ UNCHANGED <<stderr, exit_code>>
       ELSE /\ pc' = Advance
            /\ UNCHANGED <<fs, stderr, exit_code>>
  /\ UNCHANGED <<env, locals, stdout, start, written, reads, runs, firstOk>>

(* write_config, line 41. *)
call_check_no_file_named ==
  /\ Running
  /\ Current.op = "check_no_file_named"
  /\ LET r == check_no_file_named(PathArg(Callee))
     IN /\ stdout' = stdout \o r.out
        /\ IF r.exits
             THEN exit_code' = <<2>> /\ pc' = pc
             ELSE exit_code' = exit_code /\ pc' = Advance
  /\ UNCHANGED <<env, fs, locals, stderr, start, written, reads, runs, firstOk>>

(* write_config line 42, write_creds lines 53 and 54. *)
call_from_env ==
  /\ Running
  /\ Current.op = "from_env"
  /\ LET r == from_env(Current.key)
     IN /\ stdout' = stdout \o r.out
        /\ reads' = Append(reads, Current.key)
        /\ IF r.exits
             THEN /\ exit_code' = <<2>>
                  /\ UNCHANGED <<pc, locals>>
             ELSE /\ exit_code' = exit_code
                  /\ pc' = Advance
                  /\ locals' = [v \in DOMAIN locals \cup {Current.var} |->
                                  IF v = Current.var THEN r.ret ELSE locals[v]]
  /\ UNCHANGED <<env, fs, stderr, start, written, runs, firstOk>>

(* open(path, "w") followed by handle.write(text) and the close at the end *)
(* of the with block: the file is created or truncated and holds text.     *)
(* The directory of path must exist.                                       *)
open_w_write(path, text) ==
  IF aws_dir \in fs.dirs
    THEN [raised |-> FALSE,
          files |-> [p \in DOMAIN fs.files \cup {path} |->
                       IF p = path THEN text ELSE fs.files[p]]]
    ELSE [raised |-> TRUE, files |-> fs.files]

(* The effect of a with-open-write statement on the process. *)
WriteFile(path, text) ==
  LET r == open_w_write(path, text)
  IN IF r.raised
       THEN /\ stderr' = Append(stderr, "FileNotFoundError: " \o path)
            /\ exit_code' = <<1>>
            /\ UNCHANGED <<fs, pc, written>>
       ELSE /\ fs' = [fs EXCEPT !.files = r.files]
            /\ written' = written \cup {path}
            /\ pc' = Advance
            /\ UNCHANGED <<stderr, exit_code>>

(* write_config, lines 43-50. *)
write_config_open ==
  /\ Running
  /\ Current.op = "open_config"
  /\ LET contents == textwrap_dedent(config_template)
     IN WriteFile(PathArg(Callee), str_format(contents, <<locals["endpoint"]>>))
  /\ UNCHANGED <<env, locals, stdout, start, reads, runs, firstOk>>

(* write_creds, lines 55-61. *)
write_creds_open ==
  /\ Running
  /\ Current.op = "open_creds"
  /\ LET contents == textwrap_dedent(creds_template)
     IN WriteFile(PathArg(Callee),
                  str_format(contents, <<locals["key_id"], locals["key"]>>))
  /\ UNCHANGED <<env, locals, stdout, start, reads, runs, firstOk>>

(* main returns and the interpreter exits with status 0. *)
main_return ==
  /\ Running
  /\ Current.op = "return"
  /\ exit_code' = <<0>>
  /\ firstOk' = IF firstOk = <<>>
                  THEN <<[run |-> runs, env |-> env, files |-> fs.files]>>
                  ELSE firstOk
  /\ UNCHANGED <<env, fs, pc, locals, stdout, stderr, start, written, reads, runs>>

(* The script is invoked again, in any environment, on the file system the *)
(* previous invocation left.                                               *)
Rerun ==
  /\ Done
  /\ runs < MaxRuns
  /\ env' \in Environments
  /\ pc' = [main |-> 1, sub |-> 1]
  /\ locals' = EmptyLocals
  /\ stdout' = <<>>
  /\ stderr' = <<>>
  /\ exit_code' = <<>>
  /\ start' = fs
  /\ written' = {}
  /\ reads' = <<>>
  /\ runs' = runs + 1
  /\ UNCHANGED <<fs, firstOk>>

Next ==
  \/ main_makedirs
  \/ call_check_no_file_named
  \/ call_from_env
  \/ write_config_open
  \/ write_creds_open
  \/ main_return
  \/ Rerun

Spec == Init /\ [][Next]_vars

(* The runs of the script on a machine where <home>/.aws already exists,   *)
(* so that main never calls os.makedirs.                                   *)
InitDirExists == Init /\ aws_dir \in fs.dirs

SpecDirExists == InitDirExists /\ [][Next]_vars

(***************************************************************************)
(* Vocabulary of the properties                                            *)
(***************************************************************************)
Missing(k) == k \notin DOMAIN env \/ env[k] = ""

MissingKeys == {k \in EnvKeys : Missing(k)}

PreExisting(p) == p \in DOMAIN start.files

Targets == {config_file, creds_file}

(* The documented contents of the two files. *)
ExpectedConfig(endpoint) ==
  <<"[default]", "endpoint_url = " \o endpoint, "region = auto", "output = json">>

ExpectedCreds(key_id, key) ==
  <<"[default]", "aws_access_key_id = " \o key_id, "aws_secret_access_key = " \o key>>

IsMissingMsg(m) == \E k \in EnvKeys : m = MissingMsg(k)

IsExistsMsg(m) == \E p \in Targets : m = ExistsMsg(p)

MissingMsgCount == Cardinality({i \in DOMAIN stdout : IsMissingMsg(stdout[i])})

HasRead(k) == \E i \in DOMAIN reads : reads[i] = k

(* The order in which the variables are said to be validated. *)
VarOrder == <<"R2_S3_ENDPOINT", "R2_ACCESS_KEY_ID", "R2_SECRET_ACCESS_KEY">>

Position(k) == CHOOSE i \in DOMAIN VarOrder : VarOrder[i] = k

EarliestMissing ==
  VarOrder[CHOOSE i \in DOMAIN VarOrder :
             /\ Missing(VarOrder[i])
             /\ \A j \in 1..(i - 1) : ~Missing(VarOrder[j])]

(* C1: a run that starts with all three variables set and non-empty and    *)
(* with neither target file existing, whether or not <home>/.aws exists,   *)
(* ends with exit status 0 and exactly the two files exist with the        *)
(* documented contents.                                                    *)
C1_Claim ==
  (Done /\ MissingKeys = {} /\ ~PreExisting(config_file) /\ ~PreExisting(creds_file))
    => /\ Exited(0)
       /\ DOMAIN fs.files = Targets
       /\ fs.files[config_file] = ExpectedConfig(env["R2_S3_ENDPOINT"])
       /\ fs.files[creds_file] =
            ExpectedCreds(env["R2_ACCESS_KEY_ID"], env["R2_SECRET_ACCESS_KEY"])

(* C2: a run in which at least one of the three variables is unset or      *)
(* empty ends with exit status 2 and has created or modified no file.      *)
C2_Claim ==
  (Done /\ MissingKeys # {}) => (Exited(2) /\ fs.files = start.files)

(* C3: a run that starts with a file at either target path ends with exit  *)
(* status 2 and every pre-existing file has its initial contents.          *)
C3_Claim ==
  (Done /\ (PreExisting(config_file) \/ PreExisting(creds_file)))
    => /\ Exited(2)
       /\ \A p \in DOMAIN start.files :
            p \in DOMAIN fs.files /\ fs.files[p] = start.files[p]

(* C4: in a run that starts with <home>/.aws absent, the directory exists  *)
(* in every state after the directory-creation step, and the run never     *)
(* ends at that step.                                                      *)
C4_Claim ==
  (aws_dir \notin start.dirs)
    => /\ (Current.op # "makedirs" => aws_dir \in fs.dirs)
       /\ (Done => Current.op # "makedirs")

(* C5: a run ends with status 0 or 2 only; 0 exactly when it wrote both    *)
(* files, 2 exactly when a variable was missing or a target file           *)
(* pre-existed, and a status-2 exit comes with exactly one diagnostic of   *)
(* one of the two kinds.                                                   *)
C5_Claim ==
  Done =>
    /\ Exited(0) \/ Exited(2)
    /\ Exited(0) <=> (written = Targets)
    /\ Exited(2) <=> (MissingKeys # {} \/ \E p \in Targets : PreExisting(p))
    /\ Exited(2) => /\ Len(stdout) = 1
                    /\ IsMissingMsg(stdout[1]) \/ IsExistsMsg(stdout[1])

(* C6: after a run that ended with exit status 0, every later run, in any  *)
(* environment, ends with exit status 2 and writes nothing: both files     *)
(* keep the contents the successful run wrote.                             *)
C6_NeverMutatedAfterSuccess ==
  (firstOk # <<>>) =>
    LET ok == firstOk[1]
    IN /\ DOMAIN fs.files = Targets
       /\ fs.files[config_file] = ExpectedConfig(ok.env["R2_S3_ENDPOINT"])
       /\ fs.files[creds_file] =
            ExpectedCreds(ok.env["R2_ACCESS_KEY_ID"], ok.env["R2_SECRET_ACCESS_KEY"])
       /\ (runs > ok.run) => (written = {} /\ (Done => Exited(2)))

C6_Witness ==
  /\ firstOk # <<>>
  /\ runs > firstOk[1].run
  /\ Exited(2)
  /\ MissingKeys = {}
  /\ env # firstOk[1].env

(* C7: in a run that starts with <home>/.aws/config existing, whatever the *)
(* variables and the credentials file, no variable is read and no file is  *)
(* created or modified; the run prints the "exists. Refusing to overwrite" *)
(* diagnostic, never the missing-variable one, and exits with status 2.    *)
C7_ConfigCheckedFirst ==
  PreExisting(config_file) =>
    /\ reads = <<>>
    /\ fs.files = start.files
    /\ MissingMsgCount = 0
    /\ ~Exited(0) /\ ~Exited(1)
    /\ Done => (Exited(2) /\ stdout = <<ExistsMsg(config_file)>>)

C7_Witness ==
  /\ PreExisting(config_file)
  /\ ~PreExisting(creds_file)
  /\ MissingKeys = EnvKeys
  /\ Exited(2)
  /\ stdout = <<ExistsMsg(config_file)>>

(* C8: a file written by the run was opened only after every variable      *)
(* interpolated into it was read and found non-empty, so it carries no     *)
(* empty value, and credentials is written only with both keys validated.  *)
C8_WrittenValuesValidated ==
  /\ (config_file \in written) =>
       /\ HasRead("R2_S3_ENDPOINT") /\ ~Missing("R2_S3_ENDPOINT")
       /\ fs.files[config_file][2] # "endpoint_url = "
       /\ fs.files[config_file] = ExpectedConfig(env["R2_S3_ENDPOINT"])
  /\ (creds_file \in written) =>
       /\ HasRead("R2_ACCESS_KEY_ID") /\ ~Missing("R2_ACCESS_KEY_ID")
       /\ HasRead("R2_SECRET_ACCESS_KEY") /\ ~Missing("R2_SECRET_ACCESS_KEY")
       /\ fs.files[creds_file][2] # "aws_access_key_id = "
       /\ fs.files[creds_file][3] # "aws_secret_access_key = "
       /\ fs.files[creds_file] =
            ExpectedCreds(env["R2_ACCESS_KEY_ID"], env["R2_SECRET_ACCESS_KEY"])

C8_Witness ==
  /\ Exited(0)
  /\ written = Targets
  /\ fs.files[config_file][2] = "endpoint_url = https://x.r2.cloudflarestorage.com"
  /\ fs.files[creds_file][2] = "aws_access_key_id = AKIA"

(* C9: within one run config is written before a credentials variable is   *)
(* read and before credentials is written: credentials written by the run  *)
(* implies config written by the run.                                      *)
C9_ConfigBeforeCreds ==
  /\ (creds_file \in written) => (config_file \in written)
  /\ (HasRead("R2_ACCESS_KEY_ID") \/ HasRead("R2_SECRET_ACCESS_KEY"))
       => (config_file \in written)

C9_Witness ==
  /\ Done
  /\ creds_file \in written
  /\ config_file \in written
  /\ PreExisting(creds_file)

(* C10 as stated: whenever several variables are missing, the run prints   *)
(* exactly one missing-variable diagnostic, naming the earliest missing    *)
(* variable in the order, and reads no later variable.                     *)
C10_Claim ==
  (Done /\ Cardinality(MissingKeys) >= 2)
    => /\ MissingMsgCount = 1
       /\ \E i \in DOMAIN stdout : stdout[i] = MissingMsg(EarliestMissing)
       /\ \A k \in EnvKeys :
            Position(k) > Position(EarliestMissing) => ~HasRead(k)

(* C10 amended: the variables are read in the order R2_S3_ENDPOINT,        *)
(* R2_ACCESS_KEY_ID, R2_SECRET_ACCESS_KEY; a run that reads a missing      *)
(* variable stops there with exactly one missing-variable diagnostic,      *)
(* naming that variable, which is the earliest missing one, and no later   *)
(* variable is read; a run that reads no missing variable prints no        *)
(* missing-variable diagnostic.                                            *)
C10_FirstMissingReadStops ==
  /\ Len(reads) <= Len(VarOrder)
  /\ \A i \in DOMAIN reads : reads[i] = VarOrder[i]
  /\ \A i \in 1..(Len(reads) - 1) : ~Missing(reads[i])
  /\ IF reads # <<>> /\ Missing(reads[Len(reads)])
       THEN /\ Exited(2)
            /\ stdout = <<MissingMsg(reads[Len(reads)])>>
            /\ reads[Len(reads)] = EarliestMissing
       ELSE MissingMsgCount = 0

C10_Witness ==
  /\ Exited(2)
  /\ MissingKeys = {"R2_ACCESS_KEY_ID", "R2_SECRET_ACCESS_KEY"}
  /\ stdout = <<MissingMsg("R2_ACCESS_KEY_ID")>>
  /\ reads = <<"R2_S3_ENDPOINT", "R2_ACCESS_KEY_ID">>

====
